---- MODULE Spec2Model ----
(***************************************************************************)
(* Model of payu/branch.py: the branch checkout / clone orchestration and  *)
(* the symlink switching of an experiment control directory.               *)
(*                                                                         *)
(* The filesystem is modelled by the entries "archive" and "work" of the   *)
(* control directory, the set of experiment directories that exist under   *)
(* the laboratory roots, the configuration file and the process's working  *)
(* directory.  The repository is modelled by its remote and local branches *)
(* (each with the tree of its tip commit) and the active branch.           *)
(* Every function of branch.py is a sequence of steps driven by pc.        *)
(***************************************************************************)
EXTENDS Integers, Sequences, FiniteSets, TLC

\* Largest UUID already present in a branch's metadata before a call
\* (0 stands for "no UUID"); a freshly generated UUID is MaxUuid + 1.
MaxUuid == 1

Kinds == {"archive", "work"}
Experiments == {"E1", "E2"}
LabRoots == {"archive_root", "work_root"}
\* A path <laboratory root>/<experiment name>
LabPaths == LabRoots \X Experiments
NoPath == <<"-", "-">>

\* What a directory entry control_path/sym_dir can be.
Absent == [type |-> "absent", target |-> NoPath]
RegularFile == [type |-> "file", target |-> NoPath]
RealDir == [type |-> "dir", target |-> NoPath]
Symlink(p) == [type |-> "symlink", target |-> p]
Entries == {Absent, RegularFile, RealDir} \cup {Symlink(p) : p \in LabPaths}

VARIABLES
    labDir,      \* the experiment directories that exist under the lab roots
    entry,       \* entry[k]: the entry control_path/k, k in Kinds
    cfg,         \* the configuration file at config_path
    remote,      \* remote branches of the control repository: name -> tree
    local,       \* local branches of the control repository: name -> tree
    active,      \* the active branch of the control repository
    cwd,         \* os.getcwd()
    op,          \* the function of branch.py that was called
    pc,          \* position in the called function
    args,        \* arguments of the call
    co,          \* arguments of the checkout_branch call in progress
    sym,         \* arguments of the switch_symlink call in progress
    owd,         \* clone's local variable owd
    meta,        \* the Metadata object of checkout_branch
    result,      \* "none" while running, "ok" on return, else the exception
    out,         \* what the call has printed or warned so far
    log,         \* the steps the call has executed so far
    pre,         \* the state observed immediately before the call
    again,       \* TRUE iff this call repeats the previous call's arguments
    printed,     \* the lines list_branches has printed so far, in order
    todo         \* the branches list_branches has still to iterate over

vars == <<labDir, entry, cfg, remote, local, active, cwd, op, pc, args, co,
          sym, owd, meta, result, out, log, pre, again, printed, todo>>

----------------------------------------------------------------------------
\* pathlib, as branch.py uses it

\* Path.exists(): follows symlinks, so a dangling symlink does not exist.
PathExists(e, dirs) ==
    \/ e.type \in {"file", "dir"}
    \/ e.type = "symlink" /\ e.target \in dirs

\* `sym_path.is_symlink` (line 158) and `config_path.is_file` (line 78) are
\* the bound methods themselves, not their results: always true in a condition.
BoundMethodTruth(e) == TRUE

\* Path.unlink() raises on a directory and on a missing entry.
UnlinkRaises(e) == e.type \in {"dir", "absent"}

\* Path.symlink_to() raises FileExistsError when the entry is present,
\* dangling symlinks included.
SymlinkToRaises(e) == e.type # "absent"

----------------------------------------------------------------------------
\* switch_symlink (lines 150-166)

NoSym == [root |-> "-", exp |-> "-", kind |-> "-"]
SymFrame(root, exp, kind) == [root |-> root, exp |-> exp, kind |-> kind]

\* dir_path = lab_dir_path / experiment_name
DirPath(s) == <<s.root, s.exp>>

\* line 158: if sym_path.exists() and sym_path.is_symlink
ShouldRemove(e, dirs) == PathExists(e, dirs) /\ BoundMethodTruth(e)

\* line 164: if dir_path.exists()
ShouldCreate(s, dirs) == DirPath(s) \in dirs

Snapshot == [entry |-> entry, cfg |-> cfg, cwd |-> cwd, active |-> active,
             local |-> local]

NoArgs == [none |-> TRUE]
NoMeta == [uuid |-> 0, experiment |-> "-", keep_uuid |-> FALSE,
           is_new_experiment |-> FALSE]

\* lines 146-147 in the other order
WorkBeforeArchive == <<"work", "archive">>

\* lines 146-147: checkout_branch switches archive first, then work, each
\* under its own laboratory root (lab.archive_path, lab.work_path).
SymlinkOrder == <<"archive", "work">>
LabRootOf(kind) == IF kind = "archive" THEN "archive_root" ELSE "work_root"

\* Position of a kind in checkout_branch's sequence of switch_symlink calls.
OrderIndex(kind) == CHOOSE i \in 1..Len(SymlinkOrder) : SymlinkOrder[i] = kind

\* An exception leaves the function; inside clone it first meets `finally`.
RaisePc == IF op = "clone" THEN "finally" ELSE "done"

\* A call of switch_symlink(lab_dir_path, control_path, experiment_name, sym_dir)
CallSwitchSymlink(root, exp, kind) ==
    /\ pc \in {"idle", "done"}
    /\ op' = "switch_symlink"
    /\ pc' = "sym_remove"
    /\ args' = SymFrame(root, exp, kind)
    /\ sym' = SymFrame(root, exp, kind)
    /\ result' = "none"
    /\ out' = {}
    /\ log' = <<>>
    /\ pre' = Snapshot
    /\ again' = FALSE
    /\ UNCHANGED <<labDir, entry, cfg, remote, local, active, cwd, meta, co,
                   owd>>
    /\ UNCHANGED <<printed, todo>>

\* The same call once more, right after it finished.
CallSwitchSymlinkAgain ==
    /\ pc = "done"
    /\ op = "switch_symlink"
    /\ pc' = "sym_remove"
    /\ sym' = args
    /\ result' = "none"
    /\ out' = {}
    /\ log' = <<>>
    /\ pre' = Snapshot
    /\ again' = TRUE
    /\ UNCHANGED <<labDir, entry, cfg, remote, local, active, cwd, meta, op,
                   args, co, owd>>
    /\ UNCHANGED <<printed, todo>>

\* lines 157-161: remove the symlink if it already exists
SwitchSymlinkRemove ==
    /\ pc = "sym_remove"
    /\ log' = Append(log, <<"remove", sym.kind>>)
    /\ IF ShouldRemove(entry[sym.kind], labDir)
       THEN IF UnlinkRaises(entry[sym.kind])
            THEN /\ pc' = RaisePc
                 /\ result' = "OSError"
                 /\ UNCHANGED <<entry, out>>
            ELSE /\ entry' = [entry EXCEPT ![sym.kind] = Absent]
                 /\ out' = out \cup {<<"Removed symlink", sym.kind>>}
                 /\ pc' = "sym_create"
                 /\ UNCHANGED result
       ELSE /\ pc' = "sym_create"
            /\ UNCHANGED <<entry, out, result>>
    /\ UNCHANGED <<labDir, cfg, remote, local, active, cwd, op, args, co, sym,
                   owd, meta, pre, again>>
    /\ UNCHANGED <<printed, todo>>

\* lines 163-166: create the symlink if the experiment directory exists;
\* then return: to the caller of the function, or to checkout_branch, which
\* goes on to its next switch_symlink call (line 147) or returns.
SwitchSymlinkCreate ==
    /\ pc = "sym_create"
    /\ log' = Append(log, <<"create", sym.kind>>)
    /\ IF ShouldCreate(sym, labDir) /\ SymlinkToRaises(entry[sym.kind])
       THEN /\ pc' = RaisePc
            /\ result' = "FileExistsError"
            /\ UNCHANGED <<entry, out, sym>>
       ELSE /\ IF ShouldCreate(sym, labDir)
               THEN /\ entry' = [entry EXCEPT
                                    ![sym.kind] = Symlink(DirPath(sym))]
                    /\ out' = out \cup {<<"Added symlink", sym.kind>>}
               ELSE UNCHANGED <<entry, out>>
            /\ IF op = "switch_symlink"
               THEN /\ pc' = "done"
                    /\ result' = "ok"
                    /\ UNCHANGED sym
               ELSE IF OrderIndex(sym.kind) < Len(SymlinkOrder)
               THEN /\ pc' = "sym_remove"
                    /\ sym' = LET k == SymlinkOrder[OrderIndex(sym.kind) + 1]
                              IN  SymFrame(LabRootOf(k), meta.experiment, k)
                    /\ UNCHANGED result
               ELSE /\ pc' = RaisePc
                    /\ result' = IF op = "clone" THEN result ELSE "ok"
                    /\ UNCHANGED sym
    /\ UNCHANGED <<labDir, cfg, remote, local, active, cwd, op, args, co, owd,
                   meta, pre, again>>
    /\ UNCHANGED <<printed, todo>>

\* The process is killed inside switch_symlink: before line 158 or between
\* the remove phase (lines 157-161) and the create phase (lines 163-166).
Crash ==
    /\ op = "switch_symlink"
    /\ pc \in {"sym_remove", "sym_create"}
    /\ pc' = "crashed"
    /\ result' = "killed"
    /\ UNCHANGED <<labDir, entry, cfg, remote, local, active, cwd, op, args,
                   co, sym, owd, meta, out, log, pre, again>>
    /\ UNCHANGED <<printed, todo>>

----------------------------------------------------------------------------
\* The repository and the configuration file

OriginBranches == {"main", "expt"}
BranchNames == {"main", "expt", "new"}
DefaultBranch == "main"
CfgKinds == {"none", "file", "dir"}
CommitOf(b) == IF b = "main" THEN "c_main" ELSE "c_expt"

\* The tree of a branch's tip commit: whether config.yaml is there (and as
\* what), the UUID in its metadata.yaml (0: none), and the commit itself.
NoTree == [config |-> "-", uuid |-> 0, commit |-> "-"]
NoCfg == [kind |-> "none", restart |-> "-"]
NoRepo == [b \in BranchNames |-> NoTree]

\* restart_path arguments, named by what is found at the path.
RestartPaths == {"r_missing", "r_file", "r_dir"}
PathKind(p) ==
    IF p = "r_dir" THEN "dir" ELSE IF p = "r_file" THEN "file" ELSE "absent"

NoCo == [branch_name |-> "-", is_new_branch |-> FALSE,
         is_new_experiment |-> FALSE, keep_uuid |-> FALSE,
         start_point |-> "None", restart_path |-> "None",
         control_path |-> "None"]

----------------------------------------------------------------------------
\* add_restart_to_config (lines 39-62)

\* line 46 without its is_dir() test
RestartPathMissing(p) == ~(PathKind(p) # "absent")

\* line 46: not restart_path.exists() or not restart_path.is_dir()
RestartPathInvalid(p) == ~(PathKind(p) # "absent") \/ ~(PathKind(p) = "dir")

\* A call of add_restart_to_config(restart_path, config_path)
CallAddRestartToConfig(p) ==
    /\ pc = "idle"
    /\ op' = "add_restart_to_config"
    /\ pc' = "restart"
    /\ args' = [restart_path |-> p]
    /\ co' = [NoCo EXCEPT !.restart_path = p]
    /\ pre' = Snapshot
    /\ UNCHANGED <<labDir, entry, cfg, remote, local, active, cwd, sym, owd,
                   meta, result, out, log, again>>
    /\ UNCHANGED <<printed, todo>>

\* lines 140-142 of checkout_branch and the body of add_restart_to_config.
\* yaml.load raises when config_path is not a readable file.
AddRestartToConfig ==
    /\ pc = "restart"
    /\ IF co.restart_path # "None"
          /\ ~RestartPathInvalid(co.restart_path) /\ cfg.kind # "file"
       THEN /\ log' = Append(log, <<"restart", "">>)
            /\ pc' = RaisePc
            /\ result' = "OSError"
            /\ UNCHANGED <<cfg, out, sym>>
       ELSE /\ IF co.restart_path = "None"
               THEN UNCHANGED <<cfg, out, log>>
               ELSE /\ log' = Append(log, <<"restart", "">>)
                    /\ IF RestartPathInvalid(co.restart_path)
                       THEN /\ out' = out \cup {<<"warning", co.restart_path>>}
                            /\ UNCHANGED cfg
                       ELSE /\ cfg' = [cfg EXCEPT !.restart = co.restart_path]
                            /\ out' = out \cup
                                  {<<"Added restart", co.restart_path>>}
            /\ IF op = "add_restart_to_config"
               THEN /\ pc' = "done"
                    /\ result' = "ok"
                    /\ UNCHANGED sym
               ELSE /\ pc' = "sym_remove"
                    /\ sym' = SymFrame(LabRootOf(SymlinkOrder[1]),
                                       meta.experiment, SymlinkOrder[1])
                    /\ UNCHANGED result
    /\ UNCHANGED <<labDir, entry, remote, local, active, cwd, op, args, co,
                   owd, meta, pre, again>>
    /\ UNCHANGED <<printed, todo>>

\* lines 125-141 with the configuration looked for after metadata.setup
StepAfterSetupFirst(step) ==
    CASE step = "git_checkout" -> "metadata"
      [] step = "metadata" -> "check_config"
      [] step = "check_config" -> "restart"

\* lines 125-141: the statement checkout_branch goes to after each of its
\* statements: git checkout, configuration check, metadata setup, restart.
StepAfter(step) ==
    CASE step = "git_checkout" -> "check_config"
      [] step = "check_config" -> "metadata"
      [] step = "metadata" -> "restart"

----------------------------------------------------------------------------
\* check_config_path (lines 72-82)

\* line 78 without its exists() test
ConfigNotAFile(c) == ~BoundMethodTruth(c)

\* line 78: not config_path.exists() or not config_path.is_file
ConfigNotFound(c) == ~(c.kind # "none") \/ ~BoundMethodTruth(c)

\* A call of check_config_path(config_path)
CallCheckConfigPath ==
    /\ pc = "idle"
    /\ op' = "check_config_path"
    /\ pc' = "check_config"
    /\ pre' = Snapshot
    /\ UNCHANGED <<labDir, entry, cfg, remote, local, active, cwd, args, co,
                   sym, owd, meta, result, out, log, again>>
    /\ UNCHANGED <<printed, todo>>

\* line 128 of checkout_branch and the body of check_config_path
CheckConfigPath ==
    /\ pc = "check_config"
    /\ log' = Append(log, <<"check_config", "">>)
    /\ IF ConfigNotFound(cfg)
       THEN /\ out' = out \cup {<<"NO_CONFIG_FOUND_MESSAGE", "">>}
            /\ result' = "FileNotFoundError"
            /\ pc' = RaisePc
       ELSE /\ pc' = IF op = "check_config_path" THEN "done"
                    ELSE StepAfter("check_config")
            /\ result' = IF op = "check_config_path" THEN "ok" ELSE result
            /\ UNCHANGED out
    /\ UNCHANGED <<labDir, entry, cfg, remote, local, active, cwd, op, args,
                   co, sym, owd, meta, pre, again>>
    /\ UNCHANGED <<printed, todo>>

----------------------------------------------------------------------------
\* checkout_branch (lines 85-147)

\* git_checkout_branch(control_path, branch_name, is_new_branch, start_point):
\* a new branch must not exist and starts from start_point, by default the
\* checked-out commit; an existing one is local or tracks a remote branch.
GitCheckoutFails(c, loc, rem, act) ==
    LET start == IF c.start_point = "None" THEN act ELSE c.start_point
    IN  IF c.is_new_branch
        THEN loc[c.branch_name] # NoTree \/ loc[start] = NoTree
        ELSE loc[c.branch_name] = NoTree /\ c.branch_name \notin DOMAIN rem

GitCheckoutTree(c, loc, rem, act) ==
    LET start == IF c.start_point = "None" THEN act ELSE c.start_point
    IN  IF c.is_new_branch THEN loc[start]
        ELSE IF loc[c.branch_name] # NoTree THEN loc[c.branch_name]
        ELSE rem[c.branch_name]

\* Metadata.setup(keep_uuid, is_new_experiment): the UUID it leaves in the
\* metadata file, given the one found there (0: none).
SetupUuid(uuid, keep_uuid, is_new_experiment) ==
    IF uuid # 0 /\ (keep_uuid \/ ~is_new_experiment) THEN uuid ELSE MaxUuid + 1

\* metadata.experiment_name (line 145): the name derived from the UUID.
ExperimentName(uuid) == IF uuid = 1 THEN "E1" ELSE "E2"

\* lines 137-138 with keep_uuid dropped for a new branch
MetadataSetupArgsNewBranchWins(c) ==
    [keep_uuid |-> c.keep_uuid /\ ~c.is_new_branch,
     is_new_experiment |-> c.is_new_experiment \/ c.is_new_branch]

\* line 138 without the assignment of line 137
MetadataSetupArgsAsGiven(c) ==
    [keep_uuid |-> c.keep_uuid, is_new_experiment |-> c.is_new_experiment]

\* lines 137-138: the arguments checkout_branch passes to metadata.setup
MetadataSetupArgs(c) ==
    [keep_uuid |-> c.keep_uuid,
     is_new_experiment |-> c.is_new_experiment \/ c.is_new_branch]

\* A call of checkout_branch from the control directory
CallCheckoutBranch(c) ==
    /\ pc = "idle"
    /\ cwd = "control"
    /\ op' = "checkout_branch"
    /\ pc' = "resolve"
    /\ args' = c
    /\ co' = c
    /\ pre' = Snapshot
    /\ UNCHANGED <<labDir, entry, cfg, remote, local, active, cwd, sym, owd,
                   meta, result, out, log, again>>
    /\ UNCHANGED <<printed, todo>>

\* lines 121-122: control_path, read from the configuration when not given
GetControlPath ==
    /\ pc = "resolve"
    /\ log' = Append(log, <<"resolve", "">>)
    /\ co' = [co EXCEPT !.control_path = "control"]
    /\ pc' = "git_checkout"
    /\ UNCHANGED <<labDir, entry, cfg, remote, local, active, cwd, op, args,
                   sym, owd, meta, result, out, pre, again>>
    /\ UNCHANGED <<printed, todo>>

\* lines 124-125: check out (or create) the branch
GitCheckoutBranch ==
    /\ pc = "git_checkout"
    /\ log' = Append(log, <<"git_checkout", "">>)
    /\ IF GitCheckoutFails(co, local, remote, active)
       THEN /\ pc' = RaisePc
            /\ result' = "RepositoryError"
            /\ UNCHANGED <<local, active, cfg>>
       ELSE LET tree == GitCheckoutTree(co, local, remote, active)
            IN  /\ local' = [local EXCEPT ![co.branch_name] = tree]
                /\ active' = co.branch_name
                /\ cfg' = [cfg EXCEPT !.kind = tree.config]
                /\ pc' = StepAfter("git_checkout")
                /\ UNCHANGED result
    /\ UNCHANGED <<labDir, entry, remote, cwd, op, args, co, sym, owd, meta,
                   out, pre, again>>
    /\ UNCHANGED <<printed, todo>>

\* lines 130-138: Laboratory, Metadata and metadata.setup, which may fail
MetadataSetup ==
    /\ pc = "metadata"
    /\ log' = Append(log, <<"metadata", "">>)
    /\ \E fails \in BOOLEAN :
          IF fails
          THEN /\ pc' = RaisePc
               /\ result' = "MetadataError"
               /\ UNCHANGED <<meta, local>>
          ELSE LET a == MetadataSetupArgs(co)
                   u == SetupUuid(local[active].uuid, a.keep_uuid,
                                  a.is_new_experiment)
               IN  /\ meta' = [uuid |-> u, experiment |-> ExperimentName(u),
                               keep_uuid |-> a.keep_uuid,
                               is_new_experiment |-> a.is_new_experiment]
                   /\ local' = [local EXCEPT ![active].uuid = u]
                   /\ pc' = StepAfter("metadata")
                   /\ UNCHANGED result
    /\ UNCHANGED <<labDir, entry, cfg, remote, active, cwd, op, args, co, sym,
                   owd, out, pre, again>>
    /\ UNCHANGED <<printed, todo>>

----------------------------------------------------------------------------
\* clone (lines 169-245)

\* git_clone(repository, directory, branch): fails when the directory is
\* already there; else the clone has `branch` (default: the remote's default
\* branch) as its only local branch, checked out.
GitCloneFails(a, loc, rem) ==
    loc # NoRepo \/ (a.branch # "None" /\ a.branch \notin DOMAIN rem)

GitCloneBranch(a) == IF a.branch = "None" THEN DefaultBranch ELSE a.branch

\* lines 217-240 with is_new_branch left at its default
CloneCheckoutArgsNoNewBranch(a, act) ==
    [branch_name |-> IF a.new_branch_name # "None" THEN a.new_branch_name
                     ELSE IF a.branch = "None" THEN act ELSE a.branch,
     is_new_branch |-> FALSE, is_new_experiment |-> TRUE,
     keep_uuid |-> a.keep_uuid, start_point |-> "None",
     restart_path |-> a.restart_path, control_path |-> "control"]

\* lines 217-240: the checkout_branch call clone makes
CloneCheckoutArgs(a, act) ==
    IF a.new_branch_name # "None"
    THEN [branch_name |-> a.new_branch_name, is_new_branch |-> TRUE,
          is_new_experiment |-> FALSE, keep_uuid |-> a.keep_uuid,
          start_point |-> "None", restart_path |-> a.restart_path,
          control_path |-> "control"]
    ELSE [branch_name |-> IF a.branch = "None" THEN act ELSE a.branch,
          is_new_branch |-> FALSE, is_new_experiment |-> TRUE,
          keep_uuid |-> a.keep_uuid, start_point |-> "None",
          restart_path |-> a.restart_path, control_path |-> "control"]

\* lines 241-243 as a plain statement after the checkout, not a finally clause
CwdRestoredOnSuccess(o, c, res) == IF res = "none" THEN o ELSE c

\* lines 241-243: the working directory after the finally clause, given owd,
\* the current directory and the pending result
CwdAfterFinally(o, c, res) == o

\* A call of clone(repository, directory, branch, new_branch_name, ...)
CallClone(a) ==
    /\ pc = "idle"
    /\ op' = "clone"
    /\ pc' = "git_clone"
    /\ args' = a
    /\ pre' = Snapshot
    /\ UNCHANGED <<labDir, entry, cfg, remote, local, active, cwd, co, sym,
                   owd, meta, result, out, log, again>>
    /\ UNCHANGED <<printed, todo>>

\* lines 206-207: git clone, outside the try block
GitClone ==
    /\ pc = "git_clone"
    /\ IF GitCloneFails(args, local, remote)
       THEN /\ pc' = "done"
            /\ result' = "RepositoryError"
            /\ UNCHANGED <<local, active, cfg>>
       ELSE LET b == GitCloneBranch(args)
            IN  /\ local' = [x \in BranchNames |->
                               IF x = b THEN remote[b] ELSE NoTree]
                /\ active' = b
                /\ cfg' = [kind |-> remote[b].config, restart |-> "-"]
                /\ pc' = "chdir"
                /\ UNCHANGED result
    /\ UNCHANGED <<labDir, entry, remote, cwd, op, args, co, sym, owd, meta,
                   out, log, pre, again>>
    /\ UNCHANGED <<printed, todo>>

\* lines 209-215: owd = os.getcwd(); os.chdir(control_path), which may fail
Chdir ==
    /\ pc = "chdir"
    /\ owd' = cwd
    /\ \E fails \in BOOLEAN :
          IF fails
          THEN /\ pc' = "finally"
               /\ result' = "OSError"
               /\ UNCHANGED cwd
          ELSE /\ cwd' = "control"
               /\ pc' = "clone_checkout"
               /\ UNCHANGED result
    /\ UNCHANGED <<labDir, entry, cfg, remote, local, active, op, args, co,
                   sym, meta, out, log, pre, again>>
    /\ UNCHANGED <<printed, todo>>

\* lines 217-240: call checkout_branch
CloneCheckout ==
    /\ pc = "clone_checkout"
    /\ co' = CloneCheckoutArgs(args, active)
    /\ pc' = "resolve"
    /\ UNCHANGED <<labDir, entry, cfg, remote, local, active, cwd, op, args,
                   sym, owd, meta, result, out, log, pre, again>>
    /\ UNCHANGED <<printed, todo>>

\* lines 241-245: finally os.chdir(owd); then the hint, unless an exception
\* is on its way out
Finally ==
    /\ pc = "finally"
    /\ cwd' = CwdAfterFinally(owd, cwd, result)
    /\ pc' = "done"
    /\ IF result = "none"
       THEN /\ result' = "ok"
            /\ out' = out \cup {<<"To change directory run cd", "">>}
       ELSE UNCHANGED <<result, out>>
    /\ UNCHANGED <<labDir, entry, cfg, remote, local, active, op, args, co,
                   sym, owd, meta, log, pre, again>>
    /\ UNCHANGED <<printed, todo>>

----------------------------------------------------------------------------
\* print_branch_metadata (lines 248-289) and list_branches (lines 292-321)

\* A branch object (git.Head): a reference of the repository, a local head
\* or a remote-tracking one.  Two references are equal when they are the
\* same reference, not when they have the same short name.
LocalRef(b) == <<"local", b>>
RemoteRef(b) == <<"remote", b>>
TreeOf(ref, loc, rem) == IF ref[1] = "local" THEN loc[ref[2]] ELSE rem[ref[2]]

\* metadata.yaml among the top-level blobs of a commit: no such blob, an
\* empty blob, or a YAML mapping (with the UUID field when uuid # 0).
MetadataKinds == {"none", "empty", "mapping"}

\* The trees print_branch_metadata can meet.  config.yaml is a blob
\* ("file"), is missing, or is a directory, which is not a blob.
ListTrees(b) ==
    {t \in [config : CfgKinds, metadata : MetadataKinds, uuid : 0..MaxUuid,
            commit : {CommitOf(b)}] :
        /\ t.metadata # "mapping" => t.uuid = 0
        /\ t.config = "dir" => t.metadata = "none"}

\* lines 262-267: contains_config after the loop over the blobs
ContainsConfig(t) == t.config = "file"

\* lines 263-270: metadata_content after the loop; None without the blob
HasMetadataContent(t) == t.metadata # "none"

\* line 280: metadata_content.splitlines(), one <<field, value>> per line
MetadataLines(t) ==
    IF t.metadata = "mapping"
    THEN (IF t.uuid # 0 THEN <<(<<"UUID_FIELD", ToString(t.uuid)>>)>>
          ELSE <<>>) \o <<(<<"created", "today">>)>>
    ELSE <<>>

\* line 284: YAML().load(metadata_content) is None for an empty document,
\* and line 285 calls .get on it.
LoadedHasGet(t) == t.metadata = "mapping"

\* lines 262-289: what print_branch_metadata prints for a tree, and the
\* exception it raises ("none": it returns).
BranchSummary(t, verbose) ==
    IF ~ContainsConfig(t)
    THEN [lines |-> <<(<<"No config file found", "">>)>>, raises |-> "none"]
    ELSE IF ~HasMetadataContent(t)
    THEN [lines |-> <<(<<"No metadata file found", "">>)>>, raises |-> "none"]
    ELSE IF verbose
    THEN [lines |-> MetadataLines(t), raises |-> "none"]
    ELSE IF ~LoadedHasGet(t)
    THEN [lines |-> <<>>, raises |-> "AttributeError"]
    ELSE IF t.uuid # 0
    THEN [lines |-> <<(<<"UUID_FIELD", ToString(t.uuid)>>)>>,
          raises |-> "none"]
    ELSE [lines |-> <<(<<"No UUID in metadata file", "">>)>>,
          raises |-> "none"]

\* lines 265-270 reading the blobs of a checked-out working tree instead
HeadCheckedOutToInspect(act, ref) == IF ref[1] = "local" THEN ref[2] ELSE act

\* lines 265-270: the blobs are read from branch.commit.tree; HEAD stays.
HeadAfterInspect(act, ref) == act

\* local_branches_dict(repo) and remote_branches_dict(repo): the references
\* the dictionaries hold.
LocalBranchesDict(loc) == {LocalRef(b) : b \in {x \in DOMAIN loc : loc[x] # NoTree}}
RemoteBranchesDict(rem) == {RemoteRef(b) : b \in DOMAIN rem}

\* lines 311-316: the branches to list and their label
ListedBranches(remote_flag, loc, rem) ==
    IF remote_flag THEN RemoteBranchesDict(rem) ELSE LocalBranchesDict(loc)
BranchLabel(remote_flag) == IF remote_flag THEN "Remote Branch" ELSE "Branch"

\* line 307: current_branch = repo.active_branch, read as the call starts
CurrentBranch == LocalRef(pre.active)

\* A call of print_branch_metadata(branch, verbose)
CallPrintBranchMetadata(ref, verbose) ==
    /\ pc = "idle"
    /\ TreeOf(ref, local, remote) # NoTree
    /\ op' = "print_branch_metadata"
    /\ pc' = "print_metadata"
    /\ args' = [branch |-> ref, verbose |-> verbose]
    /\ pre' = Snapshot
    /\ UNCHANGED <<labDir, entry, cfg, remote, local, active, cwd, co, sym,
                   owd, meta, result, out, log, again, printed, todo>>

\* lines 262-289: the body of print_branch_metadata
PrintBranchMetadata ==
    /\ pc = "print_metadata"
    /\ LET r == BranchSummary(TreeOf(args.branch, local, remote), args.verbose)
       IN  /\ printed' = printed \o r.lines
           /\ result' = IF r.raises = "none" THEN "ok" ELSE r.raises
    /\ active' = HeadAfterInspect(active, args.branch)
    /\ pc' = "done"
    /\ UNCHANGED <<labDir, entry, cfg, remote, local, cwd, op, args, co, sym,
                   owd, meta, out, log, pre, again, todo>>

\* A call of list_branches(config_path, verbose, remote)
CallListBranches(verbose, remote_flag) ==
    /\ pc = "idle"
    /\ op' = "list_branches"
    /\ pc' = "list_current"
    /\ args' = [verbose |-> verbose, remote |-> remote_flag]
    /\ pre' = Snapshot
    /\ UNCHANGED <<labDir, entry, cfg, remote, local, active, cwd, co, sym,
                   owd, meta, result, out, log, again, printed, todo>>

\* lines 304-316: print the current branch and its summary, then pick the
\* branches to list
ListCurrent ==
    /\ pc = "list_current"
    /\ LET cur == LocalRef(active)
           r == BranchSummary(TreeOf(cur, local, remote), args.verbose)
       IN  /\ printed' = (printed \o <<(<<"* Current Branch", active>>)>>)
                             \o r.lines
           /\ active' = HeadAfterInspect(active, cur)
           /\ IF r.raises # "none"
              THEN /\ pc' = "done"
                   /\ result' = r.raises
                   /\ UNCHANGED todo
              ELSE /\ pc' = "list_loop"
                   /\ todo' = ListedBranches(args.remote, local, remote)
                   /\ UNCHANGED result
    /\ UNCHANGED <<labDir, entry, cfg, remote, local, cwd, op, args, co, sym,
                   owd, meta, out, log, pre, again>>

\* lines 318-321: one iteration of the loop, in the dictionary's order
ListNext ==
    /\ pc = "list_loop"
    /\ \E ref \in todo :
          /\ todo' = todo \ {ref}
          /\ IF ref # CurrentBranch
             THEN LET r == BranchSummary(TreeOf(ref, local, remote),
                                         args.verbose)
                  IN  /\ printed' =
                            (printed \o <<(<<BranchLabel(args.remote), ref[2]>>)>>)
                               \o r.lines
                      /\ active' = HeadAfterInspect(active, ref)
                      /\ pc' = IF r.raises = "none" THEN "list_loop" ELSE "done"
                      /\ result' = IF r.raises = "none" THEN result
                                   ELSE r.raises
             ELSE UNCHANGED <<printed, active, pc, result>>
    /\ UNCHANGED <<labDir, entry, cfg, remote, local, cwd, op, args, co, sym,
                   owd, meta, out, log, pre, again>>

\* the loop of lines 318-321 is exhausted: list_branches returns
ListReturn ==
    /\ pc = "list_loop"
    /\ todo = {}
    /\ pc' = "done"
    /\ result' = "ok"
    /\ UNCHANGED <<labDir, entry, cfg, remote, local, active, cwd, op, args,
                   co, sym, owd, meta, out, log, pre, again, printed, todo>>

----------------------------------------------------------------------------
\* Specifications

\* The symlink switcher alone: any entries, any laboratory content.
InitSwitch ==
    /\ labDir \in SUBSET LabPaths
    /\ entry \in [Kinds -> Entries]
    /\ cfg = NoCfg
    /\ remote = [b \in OriginBranches |-> NoTree]
    /\ local = NoRepo
    /\ active = "-"
    /\ cwd = "control"
    /\ op = "none"
    /\ pc = "idle"
    /\ args = NoArgs
    /\ co = NoCo
    /\ sym = NoSym
    /\ owd = "-"
    /\ meta = NoMeta
    /\ result = "none"
    /\ out = {}
    /\ log = <<>>
    /\ pre = Snapshot
    /\ again = FALSE
    /\ printed = <<>>
    /\ todo = {}

NextSwitch ==
    \/ \E root \in LabRoots, exp \in Experiments, kind \in Kinds :
          CallSwitchSymlink(root, exp, kind)
    \/ CallSwitchSymlinkAgain
    \/ SwitchSymlinkRemove
    \/ SwitchSymlinkCreate
    \/ Crash

SpecSwitch == InitSwitch /\ [][NextSwitch]_vars

\* The entries a control directory's archive or work can be before a
\* checkout: nothing, or a link left by an earlier checkout.
CheckoutEntries(k) ==
    {Absent} \cup {Symlink(<<LabRootOf(k), e>>) : e \in Experiments}

\* The orchestration: one call of checkout_branch, clone, check_config_path
\* or add_restart_to_config.  Either the control directory does not exist yet
\* (to be cloned), or it is a clone with the default branch checked out and
\* the process is inside it.  The default branch has a configuration file,
\* the other remote branch has one, has none, or has a directory of that
\* name; an experiment's archive and work directories exist together.
Init ==
    /\ \E s \in SUBSET Experiments : labDir = LabRoots \X s
    /\ \E c \in CfgKinds, u \in [OriginBranches -> 0..MaxUuid] :
          remote = [b \in OriginBranches |->
                      [config |-> IF b = DefaultBranch THEN "file" ELSE c,
                       uuid |-> u[b], commit |-> CommitOf(b)]]
    /\ \/ /\ local = NoRepo
          /\ active = "-"
          /\ entry = [k \in Kinds |-> Absent]
          /\ cfg = NoCfg
          /\ cwd \in {"home", "scratch"}
       \/ /\ local = [b \in BranchNames |->
                        IF b = DefaultBranch THEN remote[b] ELSE NoTree]
          /\ active = DefaultBranch
          /\ \E a \in CheckoutEntries("archive"), w \in CheckoutEntries("work") :
                entry = [k \in Kinds |-> IF k = "archive" THEN a ELSE w]
          /\ cfg = [kind |-> remote[DefaultBranch].config, restart |-> "-"]
          /\ cwd = "control"
    /\ op = "none"
    /\ pc = "idle"
    /\ args = NoArgs
    /\ co = NoCo
    /\ sym = NoSym
    /\ owd = "-"
    /\ meta = NoMeta
    /\ result = "none"
    /\ out = {}
    /\ log = <<>>
    /\ pre = Snapshot
    /\ again = FALSE
    /\ printed = <<>>
    /\ todo = {}

\* The argument tuples of a checkout_branch call
CheckoutCalls ==
    {c \in [branch_name : BranchNames, is_new_branch : BOOLEAN,
            is_new_experiment : BOOLEAN, keep_uuid : BOOLEAN,
            start_point : {"None", "main"},
            restart_path : {"None"} \cup RestartPaths,
            control_path : {"None"}] :
        ~c.is_new_branch => c.start_point = "None"}

\* The argument tuples of a clone call
CloneCalls ==
    [branch : {"None"} \cup OriginBranches, new_branch_name : {"None", "new"},
     keep_uuid : BOOLEAN, restart_path : {"None"} \cup RestartPaths]

Next ==
    \/ \E c \in CheckoutCalls : CallCheckoutBranch(c)
    \/ \E a \in CloneCalls : CallClone(a)
    \/ CallCheckConfigPath
    \/ \E p \in RestartPaths : CallAddRestartToConfig(p)
    \/ GetControlPath
    \/ GitCheckoutBranch
    \/ CheckConfigPath
    \/ MetadataSetup
    \/ AddRestartToConfig
    \/ SwitchSymlinkRemove
    \/ SwitchSymlinkCreate
    \/ GitClone
    \/ Chdir
    \/ CloneCheckout
    \/ Finally

Spec == Init /\ [][Next]_vars

\* The branch inspector: a control directory whose repository has main and
\* possibly expt locally, both in the remote, any of their trees, either
\* local branch active; one call of list_branches or print_branch_metadata.
InitList ==
    /\ labDir = LabRoots \X {"E1"}
    /\ entry = [k \in Kinds |-> Symlink(<<LabRootOf(k), "E1">>)]
    /\ remote \in [OriginBranches -> UNION {ListTrees(b) : b \in OriginBranches}]
    /\ \A b \in OriginBranches : remote[b] \in ListTrees(b)
    /\ local \in [BranchNames ->
                     {NoTree} \cup UNION {ListTrees(b) : b \in OriginBranches}]
    /\ local["main"] \in ListTrees("main")
    /\ local["expt"] \in {NoTree} \cup ListTrees("expt")
    /\ local["new"] = NoTree
    /\ active \in {b \in BranchNames : local[b] # NoTree}
    /\ cfg = [kind |-> local[active].config, restart |-> "-"]
    /\ cwd = "control"
    /\ op = "none"
    /\ pc = "idle"
    /\ args = NoArgs
    /\ co = NoCo
    /\ sym = NoSym
    /\ owd = "-"
    /\ meta = NoMeta
    /\ result = "none"
    /\ out = {}
    /\ log = <<>>
    /\ pre = Snapshot
    /\ again = FALSE
    /\ printed = <<>>
    /\ todo = {}

NextList ==
    \/ \E verbose \in BOOLEAN, remote_flag \in BOOLEAN :
          CallListBranches(verbose, remote_flag)
    \/ \E b \in BranchNames, verbose \in BOOLEAN :
          CallPrintBranchMetadata(LocalRef(b), verbose)
    \/ ListCurrent
    \/ ListNext
    \/ ListReturn
    \/ PrintBranchMetadata

SpecList == InitList /\ [][NextList]_vars

----------------------------------------------------------------------------
\* Properties

InCheckout == op \in {"checkout_branch", "clone"} /\ co # NoCo
Failed == result \notin {"none", "ok"}
Executed(step) == \E i \in 1..Len(log) : log[i] = step
LastStep == IF Len(log) = 0 THEN <<"-", "-">> ELSE log[Len(log)]
IsPrefix(s, t) == Len(s) <= Len(t) /\ \A i \in 1..Len(s) : s[i] = t[i]
Message(m) == <<m, "">>

\* The tree a commit had in the remote, before any metadata setup.
OriginTree(commit) ==
    remote[CHOOSE b \in OriginBranches : CommitOf(b) = commit]

\* C1: after switch_symlink, whatever the entry was before (absent, a live
\* symlink or a dangling symlink), the entry is a symlink to L/E if L/E
\* existed at call time, and is absent otherwise.
C1_SwitchSymlinkPostcondition ==
    (op = "switch_symlink" /\ pc = "done"
        /\ pre.entry[args.kind].type \in {"absent", "symlink"})
    => IF DirPath(args) \in labDir
       THEN entry[args.kind] = Symlink(DirPath(args))
       ELSE entry[args.kind] = Absent

\* C2: a second switch_symlink call with the same arguments does not fail
\* and leaves the filesystem as the first call left it (stated for an entry
\* that is absent or a symlink, live or dangling).
C2_SwitchSymlinkIdempotent ==
    (op = "switch_symlink" /\ pc = "done" /\ again
        /\ pre.entry[args.kind].type \in {"absent", "symlink"})
    => (result = "ok" /\ entry = pre.entry)

\* C3: when clone has returned or raised, the working directory is the one
\* observed immediately before the call.
C3_CloneRestoresCwd ==
    (op = "clone" /\ pc = "done") => cwd = pre.cwd

\* clone raised ConfigNotFound from inside the cloned directory and the
\* process is back where it was.
C3_Witness ==
    /\ op = "clone" /\ pc = "done"
    /\ result = "FileNotFoundError"
    /\ pre.cwd = "home" /\ cwd = "home"

\* C4: once checkout_branch has validated the configuration of a checked-out
\* branch whose tree has no configuration file, it has printed the
\* remediation message and raised FileNotFoundError, and the active branch
\* is the requested one, then and ever after.
C4_ConfigNotFoundAfterSwitch ==
    (InCheckout /\ LastStep = <<"check_config", "">>
        /\ local[co.branch_name].config = "none")
    => /\ result = "FileNotFoundError"
       /\ Message("NO_CONFIG_FOUND_MESSAGE") \in out
       /\ active = co.branch_name

\* checkout_branch raised on a branch without configuration file and the
\* repository has moved from main to that branch.
C4_Witness ==
    /\ op = "checkout_branch" /\ pc = "done"
    /\ result = "FileNotFoundError"
    /\ local["expt"].config = "none"
    /\ pre.active = "main" /\ active = "expt"

\* C5: when metadata setup has run for a checkout_branch call with
\* keep_uuid on a branch that had a UUID, setup received keep_uuid and the
\* branch still has that UUID, whatever is_new_branch and is_new_experiment.
C5_KeepUuidPreserves ==
    (InCheckout /\ meta # NoMeta /\ co.keep_uuid
        /\ OriginTree(local[active].commit).uuid # 0)
    => /\ meta.keep_uuid
       /\ meta.uuid = OriginTree(local[active].commit).uuid
       /\ local[active].uuid = OriginTree(local[active].commit).uuid

\* a new branch, asked to be a new experiment, kept the UUID it started from.
C5_Witness ==
    /\ op = "checkout_branch" /\ pc = "done" /\ result = "ok"
    /\ co.keep_uuid /\ co.is_new_branch /\ co.is_new_experiment
    /\ active = "new"
    /\ pre.local["main"].uuid = 1 /\ local["new"].uuid = 1

\* C6: add_restart_to_config with a restart_path that is missing or not a
\* directory returns normally, leaves the configuration file as it was and
\* emits a warning and nothing else.
C6_InvalidRestartLeavesConfig ==
    (op = "add_restart_to_config" /\ pc = "done"
        /\ PathKind(args.restart_path) # "dir")
    => /\ result = "ok"
       /\ cfg = pre.cfg
       /\ out = {<<"warning", args.restart_path>>}

\* the restart path is a regular file, the configuration file is there and
\* was left alone.
C6_Witness ==
    /\ op = "add_restart_to_config" /\ pc = "done"
    /\ args.restart_path = "r_file"
    /\ cfg.kind = "file" /\ cfg = pre.cfg
    /\ result = "ok"

\* C7: check_config_path raises ConfigNotFound exactly when the path is
\* missing or not a regular file, and never changes the filesystem.
C7_ConfigLocator ==
    (LastStep = <<"check_config", "">>)
    => /\ (result = "FileNotFoundError") <=> (cfg.kind # "file")
       /\ entry = pre.entry
       /\ cfg.restart = pre.cfg.restart

\* C8: the steps of checkout_branch.
ExpectedSteps(c) ==
    <<(<<"resolve", "">>), (<<"git_checkout", "">>), (<<"check_config", "">>),
      (<<"metadata", "">>)>>
    \o (IF c.restart_path # "None" THEN <<(<<"restart", "">>)>> ELSE <<>>)
    \o <<(<<"remove", "archive">>), (<<"create", "archive">>),
         (<<"remove", "work">>), (<<"create", "work">>)>>

ArchiveTarget == <<"archive_root", meta.experiment>>

\* The effects of the steps before the failing one are still there, and the
\* steps after it have left no trace.
NoRollbackNoLaterEffect ==
    /\ Len(log) > 2 => active = co.branch_name
    /\ Executed(<<"restart", "">>) \/ Executed(<<"remove", "archive">>)
          => local[active].uuid = meta.uuid
    /\ (Executed(<<"remove", "archive">>) /\ co.restart_path = "r_dir")
          => cfg.restart = "r_dir"
    /\ ~Executed(<<"restart", "">>) \/ LastStep = <<"restart", "">>
          => cfg.restart = pre.cfg.restart
    /\ ~Executed(<<"remove", "archive">>) => entry = pre.entry
    /\ ~Executed(<<"remove", "work">>)
          => entry["work"] = pre.entry["work"]
    /\ LastStep[2] = "archive" => entry = pre.entry
    /\ LastStep[2] = "work"
          => /\ entry["work"] = pre.entry["work"]
             /\ ArchiveTarget \in labDir
                   => entry["archive"] = Symlink(ArchiveTarget)

\* C8: checkout_branch executes its steps in the fixed order (resolve the
\* control path, check out, validate the configuration, set up metadata,
\* inject the restart path if one was given, switch archive, switch work);
\* a failed step is the last one executed, and it leaves the effects of the
\* earlier steps in place and everything the later steps would touch as it
\* was before the call.
C8_StepsInOrderNoRollback ==
    /\ [](InCheckout => IsPrefix(log, ExpectedSteps(co)))
    /\ []((InCheckout /\ Failed /\ Len(log) > 0) => NoRollbackNoLaterEffect)
    /\ [][(InCheckout /\ Failed)
            => (log' = log /\ entry' = entry /\ cfg' = cfg /\ local' = local
                /\ active' = active /\ meta' = meta)]_vars

\* switching archive failed after checkout, validation and metadata setup:
\* the branch is checked out, the work link is the one from before the call.
C8_Witness ==
    /\ op = "checkout_branch" /\ pc = "done"
    /\ result = "FileExistsError"
    /\ LastStep = <<"create", "archive">>
    /\ pre.active = "main" /\ active = "expt"
    /\ entry["work"].type = "symlink" /\ entry["work"] = pre.entry["work"]

\* C9: when checkout_branch returns, the active branch is the requested one,
\* its configuration file exists, metadata setup has completed for it, and
\* archive and work are each absent or a link to the existing directory of
\* the experiment named by the metadata under their laboratory root.
C9_ConsistentOnSuccess ==
    (op = "checkout_branch" /\ pc = "done" /\ result = "ok")
    => /\ active = co.branch_name
       /\ cfg.kind # "none"
       /\ meta # NoMeta /\ local[active].uuid = meta.uuid
       /\ \A k \in Kinds :
             \/ entry[k] = Absent
             \/ /\ entry[k] = Symlink(<<LabRootOf(k), meta.experiment>>)
                /\ entry[k].target \in labDir

\* C10: the checkout_branch call of a clone with new_branch_name creates
\* that branch (is_new_branch is true); once it is checked out it is the
\* active branch and sits on the tip of `branch` when one was given, else
\* on the commit the clone had checked out.
C10_CloneNewBranchStart ==
    (op = "clone" /\ co # NoCo /\ args.new_branch_name # "None")
    => /\ co.is_new_branch
       /\ co.branch_name = args.new_branch_name
       /\ Executed(<<"check_config", "">>)
             => /\ active = args.new_branch_name
                /\ local[active].commit =
                      CommitOf(IF args.branch # "None" THEN args.branch
                               ELSE DefaultBranch)

\* clone(branch=expt, new_branch_name=new) returned with new checked out on
\* expt's tip.
C10_Witness ==
    /\ op = "clone" /\ pc = "done" /\ result = "ok"
    /\ args.branch = "expt" /\ args.new_branch_name = "new"
    /\ active = "new" /\ local["new"].commit = "c_expt"

\* C11: every metadata.setup reached through clone receives
\* is_new_experiment = TRUE and the keep_uuid the caller of clone gave, on
\* the new-branch path and on the existing-branch path; in checkout_branch
\* generally it receives is_new_experiment OR is_new_branch and keep_uuid
\* as given, so a new branch always asks for a new experiment.
C11_SetupArgs ==
    (InCheckout /\ Executed(<<"metadata", "">>) /\ meta # NoMeta)
    => /\ meta.is_new_experiment = (co.is_new_experiment \/ co.is_new_branch)
       /\ meta.keep_uuid = co.keep_uuid
       /\ co.is_new_branch => meta.is_new_experiment
       /\ op = "clone" => /\ meta.is_new_experiment
                          /\ meta.keep_uuid = args.keep_uuid

\* A clone with new_branch_name and keep_uuid has run metadata.setup.
C11_Witness ==
    /\ op = "clone" /\ co # NoCo /\ Executed(<<"metadata", "">>)
    /\ meta # NoMeta
    /\ co.is_new_branch /\ ~co.is_new_experiment /\ args.keep_uuid

\* C14: during switch_symlink, for an entry that was absent or a symlink,
\* the entry is at every point its previous link, absent, or the new link to
\* L/E; once the remove phase has run it never points anywhere but L/E, and
\* a crash between the remove phase and the create phase leaves it absent.
C14_NoStaleLinkAfterRemove ==
    (op = "switch_symlink" /\ pre.entry[args.kind].type \in {"absent", "symlink"})
    => /\ entry[args.kind] \in
             {pre.entry[args.kind], Absent, Symlink(DirPath(args))}
       /\ (Executed(<<"remove", args.kind>>) /\ entry[args.kind].type = "symlink")
             => entry[args.kind].target = DirPath(args)
       /\ (pc = "crashed" /\ LastStep = <<"remove", args.kind>>)
             => entry[args.kind] = Absent

\* C18: switch_symlink never deletes an entry that is a regular file or a
\* real directory.
C18_OnlySymlinksRemoved ==
    (op = "switch_symlink" /\ pre.entry[args.kind].type \in {"file", "dir"})
    => entry[args.kind] = pre.entry[args.kind]

\* C19: switch_symlink returns without raising whenever the entry was absent
\* or a symlink, live or dangling, whether L/E exists or not.
C19_NeverRaisesOnSymlink ==
    (op = "switch_symlink" /\ pc = "done"
        /\ pre.entry[args.kind].type \in {"absent", "symlink"})
    => result = "ok"

\* C15: a checkout_branch call whose restart_path is missing or not a
\* directory does not fail on it: the warning is emitted, the configuration
\* file keeps its restart entry, and the call goes on to switch archive and
\* then work, with the targets it would have had without restart_path; it
\* returns normally unless one of the two switches raises.
C15_InvalidRestartContinues ==
    (InCheckout /\ Executed(<<"restart", "">>)
        /\ PathKind(co.restart_path) # "dir")
    => /\ <<"warning", co.restart_path>> \in out
       /\ cfg.restart = pre.cfg.restart
       /\ LastStep = <<"restart", "">>
             => /\ result = "none"
                /\ pc = "sym_remove"
                /\ sym = SymFrame("archive_root", meta.experiment, "archive")
       /\ Executed(<<"remove", "work">>)
             => /\ Executed(<<"create", "archive">>)
                /\ sym = SymFrame("work_root", meta.experiment, "work")
       /\ Failed => LastStep[1] \in {"remove", "create"}
       /\ (pc = "done" /\ ~Failed)
             => /\ result = "ok"
                /\ LastStep = <<"create", "work">>

\* checkout_branch returned normally after warning about a missing restart
\* path, with archive and work linked to the experiment.
C15_Witness ==
    /\ op = "checkout_branch" /\ pc = "done" /\ result = "ok"
    /\ co.restart_path = "r_missing"
    /\ <<"warning", "r_missing">> \in out
    /\ cfg = pre.cfg
    /\ \A k \in Kinds : entry[k] = Symlink(<<LabRootOf(k), meta.experiment>>)

\* C16: when checkout_branch fails with ConfigNotFound, metadata.setup was
\* not invoked, the configuration file was not written, and the archive and
\* work entries are as they were before the call.
C16_ConfigNotFoundFrame ==
    (InCheckout /\ result = "FileNotFoundError")
    => /\ ~Executed(<<"metadata", "">>)
       /\ meta = NoMeta
       /\ ~Executed(<<"restart", "">>)
       /\ cfg.restart = pre.cfg.restart
       /\ entry = pre.entry
       /\ \A k \in Kinds : ~Executed(<<"remove", k>>)

\* checkout_branch raised ConfigNotFound on expt: the active branch changed
\* while archive still links to the experiment of the previous branch.
C16_Witness ==
    /\ op = "checkout_branch" /\ pc = "done"
    /\ result = "FileNotFoundError"
    /\ pre.active = "main" /\ active = "expt"
    /\ entry["archive"].type = "symlink" /\ entry = pre.entry
    /\ meta = NoMeta

\* The branch lines among the printed lines, in order.
Headers ==
    SelectSeq(printed,
              LAMBDA l : l[1] \in {"* Current Branch", "Branch", "Remote Branch"})

\* C12: list_branches prints the active branch and its summary first, then
\* every other listed branch (local or remote by the caller's choice) with
\* its summary exactly once, and the active branch is not printed again.
C12_ListsEveryBranchOnce ==
    (op = "list_branches" /\ pc = "done")
    => LET others == ListedBranches(args.remote, local, remote)
                        \ {CurrentBranch}
       IN  /\ result = "ok"
           /\ Len(printed) >= 1
           /\ printed[1] = <<"* Current Branch", pre.active>>
           /\ Len(Headers) = 1 + Cardinality(others)
           /\ \A ref \in others :
                 Cardinality({i \in 2..Len(Headers) :
                    Headers[i] = <<BranchLabel(args.remote), ref[2]>>}) = 1
           /\ \A i \in 2..Len(Headers) :
                 /\ Headers[i][1] = BranchLabel(args.remote)
                 /\ ~args.remote => Headers[i][2] # pre.active

\* C13: print_branch_metadata returns after printing exactly one of: no
\* config file found (whatever the metadata blob); else no metadata file
\* found; else, verbose, every metadata line; else the UUID field, or no
\* UUID in metadata file when the field is absent.
C13_SummaryPrecedence ==
    (op = "print_branch_metadata" /\ pc = "done")
    => LET t == TreeOf(args.branch, local, remote)
       IN  /\ result = "ok"
           /\ printed =
                 IF t.config # "file"
                 THEN <<(<<"No config file found", "">>)>>
                 ELSE IF t.metadata = "none"
                 THEN <<(<<"No metadata file found", "">>)>>
                 ELSE IF args.verbose THEN MetadataLines(t)
                 ELSE IF t.uuid # 0
                 THEN <<(<<"UUID_FIELD", ToString(t.uuid)>>)>>
                 ELSE <<(<<"No UUID in metadata file", "">>)>>

\* C17: from the start to the end of list_branches and
\* print_branch_metadata, whatever the flags, the active branch, the
\* branches' trees, the configuration file, the archive and work entries
\* and the working directory are those before the call.
C17_InspectorReadOnly ==
    (op \in {"list_branches", "print_branch_metadata"})
    => /\ active = pre.active
       /\ local = pre.local
       /\ cfg = pre.cfg
       /\ entry = pre.entry
       /\ cwd = pre.cwd

\* list_branches(verbose, remote) returned after printing the current
\* branch and both remote branches, from main with expt also local.
C17_Witness ==
    /\ op = "list_branches" /\ pc = "done" /\ result = "ok"
    /\ args.verbose /\ args.remote
    /\ Len(Headers) = 3
    /\ local["expt"] # NoTree
    /\ active = "main" /\ entry = pre.entry

====
